---- MODULE Spec2Model ----
(***************************************************************************)
(* Model of news_bias.py: the scraper build_data, the ratio classifier     *)
(* get_agreeance_text, and the export steps save_json, build_dataframe and *)
(* save_csv as the entry point runs them.                                  *)
(*                                                                         *)
(* Numbers.  agree / disagree is Python true division of two ints.  The    *)
(* quotient is kept as the reduced fraction <<n, m>>, and the comparisons  *)
(* of get_agreeance_text against the literals 0.33, 0.5, 0.67, 1, 1.5, 2   *)
(* and 3 are made by cross multiplication against 33/100, 1/2, 67/100, 1,  *)
(* 3/2, 2 and 3.  For counts of the size used here this agrees with the    *)
(* comparison of the two doubles: a quotient that equals one of the        *)
(* decimals rounds to the same double as the literal, and a quotient that  *)
(* differs from it differs by far more than one unit in the last place.    *)
(***************************************************************************)
EXTENDS Integers, Sequences, FiniteSets, TLC

VARIABLES
    pc,         \* position of the entry point / build_data
    exc,        \* exception that left build_data, "none" while there is none
    pageIdx,    \* index in pages of the page the for loop is at
    rows,       \* build_data's local `rows`: bound or not, and its value
    rowIdx,     \* index in rows of the row the inner for loop is at
    data,       \* build_data's local `data`, then the entry point's `data`
    net,        \* sleeps and requests made so far, in order
    goodRows,   \* titles of the extractable rows of the pages fetched so far
    served,     \* number of rows the site has served so far
    store,      \* JSON/allsides.json
    dataframe,  \* the entry point's `dataframe`
    csv,        \* CSV/allsides_bias.csv
    clsIn,      \* classifier harness: agree and disagree counts
    clsOut      \* classifier harness: label returned

vars == <<pc, exc, pageIdx, rows, rowIdx, data, net, goodRows, served, store,
          dataframe, csv, clsIn, clsOut>>

----------------------------------------------------------------------------
(* Bounds *)

\* Rows in the rating table, over all its pages.
MaxSiteRows == 3

MaxCount == 100

----------------------------------------------------------------------------
(* Program constants *)

NumPages == 3

SleepSeconds == 10

pages == [p \in 1..NumPages |-> <<"https://www.allsides.com", "media-bias-ratings", p - 1>>]

Labels ==
    {"absolutely agrees", "strongly agrees", "agrees", "somewhat agrees",
     "neutral", "somewhat disagrees", "disagrees", "strongly disagrees",
     "absolutely disagrees"}

----------------------------------------------------------------------------
(* Arithmetic *)

RECURSIVE GCD(_, _)
GCD(a, b) == IF b = 0 THEN a ELSE GCD(b, a % b)

\* Mutant: floor division, as `/` on ints was before Python 3.
TrueDiv_Floor(a, b) == <<a \div b, 1>>

\* a / b for ints a >= 0, b > 0: the quotient as a reduced fraction.
TrueDiv(a, b) == LET g == GCD(a, b) IN <<a \div g, b \div g>>

\* Mutant: the upper ends of the ranges are exclusive.
get_agreeance_text_OpenRanges(ratio) ==
    LET n == ratio[1]
        m == ratio[2]
    IN  IF n > 3 * m THEN "absolutely agrees"
        ELSE IF 2 * m < n /\ n < 3 * m THEN "strongly agrees"
        ELSE IF 3 * m < 2 * n /\ n < 2 * m THEN "agrees"
        ELSE IF m < n /\ 2 * n < 3 * m THEN "somewhat agrees"
        ELSE IF n = m THEN "neutral"
        ELSE IF 67 * m < 100 * n /\ n < m THEN "somewhat disagrees"
        ELSE IF m < 2 * n /\ 100 * n < 67 * m THEN "disagrees"
        ELSE IF 33 * m < 100 * n /\ 2 * n < m THEN "strongly disagrees"
        ELSE IF 100 * n < 33 * m THEN "absolutely disagrees"
        ELSE "None"

get_agreeance_text(ratio) ==
    LET n == ratio[1]
        m == ratio[2]
    IN  IF n > 3 * m THEN "absolutely agrees"
        ELSE IF 2 * m < n /\ n <= 3 * m THEN "strongly agrees"
        ELSE IF 3 * m < 2 * n /\ n <= 2 * m THEN "agrees"
        ELSE IF m < n /\ 2 * n <= 3 * m THEN "somewhat agrees"
        ELSE IF n = m THEN "neutral"
        ELSE IF 67 * m < 100 * n /\ n < m THEN "somewhat disagrees"
        ELSE IF m < 2 * n /\ 100 * n <= 67 * m THEN "disagrees"
        ELSE IF 33 * m < 100 * n /\ 2 * n <= m THEN "strongly disagrees"
        ELSE IF 100 * n <= 33 * m THEN "absolutely disagrees"
        ELSE "None"

----------------------------------------------------------------------------
(* Pages served by the site *)

\* What the selectors find in one <tr>.  bad holds the fields whose element
\* is absent or whose text does not parse; inner is what the request to the
\* outlet's own page does.
Fields == {"title", "href", "bias", "agree", "disagree"}

Counts == {<<12, 4>>, <<3, 9>>, <<5, 0>>}

BiasOf(c) == IF c = <<12, 4>> THEN "left" ELSE IF c = <<3, 9>> THEN "right" ELSE "center"

RowKinds ==
    {[bad |-> {}, counts |-> c, inner |-> "ok"] : c \in Counts}
    \cup {[bad |-> {f}, counts |-> <<12, 4>>, inner |-> "ok"] : f \in Fields}
    \cup {[bad |-> {}, counts |-> <<12, 4>>, inner |-> i] : i \in {"get_fails", "no_grid"}}

MkRow(p, i, k) ==
    [title |-> <<"Outlet", p, i>>,
     href |-> <<"news-source", "outlet", p, i>>,
     biasHref |-> <<"media-bias", "media-bias-rating", BiasOf(k.counts)>>,
     agree |-> k.counts[1],
     disagree |-> k.counts[2],
     home |-> <<"home", p, i>>,
     bad |-> k.bad,
     inner |-> k.inner]

\* The documents page p may be, given that the table has `left` more rows.
Bodies(p, left) ==
    UNION {{[i \in 1..n |-> MkRow(p, i, ks[i])] : ks \in [1..n -> RowKinds]} : n \in 0..left}

\* A row every field of which extracts and whose outlet page resolves.
Extractable(row) == row.bad = {} /\ row.disagree # 0 /\ row.inner = "ok"

RECURSIVE GoodTitlesFrom(_, _)
GoodTitlesFrom(s, i) ==
    IF i > Len(s) THEN <<>>
    ELSE (IF Extractable(s[i]) THEN <<s[i].title>> ELSE <<>>) \o GoodTitlesFrom(s, i + 1)

GoodTitles(body) == GoodTitlesFrom(body, 1)

----------------------------------------------------------------------------
(* Network events *)

Sleep == [op |-> "sleep", secs |-> SleepSeconds, url |-> <<>>]

Get(u) == [op |-> "get", secs |-> 0, url |-> u]

----------------------------------------------------------------------------
(* build_data *)

KeyOrder ==
    <<"name", "allsides_page", "bias", "agree", "disagree", "agree_ratio",
      "agreeance_text", "news_page">>

Last(s) == s[Len(s)]

\* The except clause of the row loop: its log call reads d['allsides_page'].
RowHandler(d, events) ==
    IF "allsides_page" \in DOMAIN d
    THEN [status |-> "caught", exc |-> "none", d |-> d, net |-> events]
    ELSE [status |-> "raised", exc |-> "KeyError", d |-> d, net |-> events]

\* Mutant: a division by zero yields an infinite ratio instead of raising.
Extract_ZeroDivides(row) ==
    LET d0 == <<>>
        d1 == [name |-> row.title]
        d2 == d1 @@ [allsides_page |-> <<"https://www.allsides.com">> \o row.href]
        d3 == d2 @@ [bias |-> Last(row.biasHref)]
        d4 == d3 @@ [agree |-> row.agree]
        d5 == d4 @@ [disagree |-> row.disagree]
        d6 == d5 @@ [agree_ratio |-> IF d5.disagree = 0 THEN <<1, 0>>
                                     ELSE TrueDiv(d5.agree, d5.disagree)]
        d7 == d6 @@ [agreeance_text |-> get_agreeance_text(d6.agree_ratio)]
        d8 == d7 @@ [news_page |-> row.home]
        req == <<Sleep, Get(d2.allsides_page)>>
    IN  IF "title" \in row.bad THEN RowHandler(d0, <<>>)
        ELSE IF "href" \in row.bad THEN RowHandler(d1, <<>>)
        ELSE IF "bias" \in row.bad THEN RowHandler(d2, <<>>)
        ELSE IF "agree" \in row.bad THEN RowHandler(d3, <<>>)
        ELSE IF "disagree" \in row.bad THEN RowHandler(d4, <<>>)
        ELSE IF row.inner # "ok" THEN RowHandler(d7, req)
        ELSE [status |-> "ok", exc |-> "none", d |-> d8, net |-> req]

\* The body of the row loop: d is filled key by key until a statement fails.
Extract(row) ==
    LET d0 == <<>>
        d1 == [name |-> row.title]
        d2 == d1 @@ [allsides_page |-> <<"https://www.allsides.com">> \o row.href]
        d3 == d2 @@ [bias |-> Last(row.biasHref)]
        d4 == d3 @@ [agree |-> row.agree]
        d5 == d4 @@ [disagree |-> row.disagree]
        d6 == d5 @@ [agree_ratio |-> TrueDiv(d5.agree, d5.disagree)]
        d7 == d6 @@ [agreeance_text |-> get_agreeance_text(d6.agree_ratio)]
        d8 == d7 @@ [news_page |-> row.home]
        req == <<Sleep, Get(d2.allsides_page)>>
    IN  IF "title" \in row.bad THEN RowHandler(d0, <<>>)
        ELSE IF "href" \in row.bad THEN RowHandler(d1, <<>>)
        ELSE IF "bias" \in row.bad THEN RowHandler(d2, <<>>)
        ELSE IF "agree" \in row.bad THEN RowHandler(d3, <<>>)
        ELSE IF "disagree" \in row.bad THEN RowHandler(d4, <<>>)
        ELSE IF d5.disagree = 0 THEN RowHandler(d5, <<>>)
        ELSE IF row.inner # "ok" THEN RowHandler(d7, req)
        ELSE [status |-> "ok", exc |-> "none", d |-> d8, net |-> req]

\* Lines 122-134: request the page and select its rows; on any failure the
\* except clause only logs, and `rows` keeps whatever it was bound to.  The
\* row loop then evaluates `rows`.
FetchPage ==
    /\ pc = "page"
    /\ pageIdx <= NumPages
    /\ \E ok \in BOOLEAN, body \in Bodies(pageIdx, MaxSiteRows - served) :
          /\ ok \/ body = <<>>
          /\ rows' = IF ok THEN [bound |-> TRUE, val |-> body] ELSE rows
          /\ goodRows' = IF ok THEN goodRows \o GoodTitles(body) ELSE goodRows
          /\ served' = served + Len(body)
    /\ net' = Append(net, Get(pages[pageIdx]))
    /\ rowIdx' = 1
    /\ IF rows'.bound
       THEN pc' = "rows" /\ exc' = exc
       ELSE pc' = "raised" /\ exc' = "NameError"
    /\ UNCHANGED <<pageIdx, data, store, dataframe, csv, clsIn, clsOut>>

\* Lines 135-156: one iteration of the row loop.
ExtractRow ==
    /\ pc = "rows"
    /\ rowIdx <= Len(rows.val)
    /\ LET r == Extract(rows.val[rowIdx])
       IN  /\ net' = net \o r.net
           /\ data' = IF r.status = "ok" THEN Append(data, r.d) ELSE data
           /\ IF r.status = "raised"
              THEN pc' = "raised" /\ exc' = r.exc /\ rowIdx' = rowIdx
              ELSE pc' = pc /\ exc' = exc /\ rowIdx' = rowIdx + 1
    /\ UNCHANGED <<pageIdx, rows, goodRows, served, store, dataframe, csv,
                   clsIn, clsOut>>

\* Mutant: no sleep after the rows of a page.
EndPage_NoSleep ==
    /\ pc = "rows"
    /\ rowIdx > Len(rows.val)
    /\ pageIdx' = pageIdx + 1
    /\ pc' = "page"
    /\ UNCHANGED <<exc, rows, rowIdx, data, net, goodRows, served, store, dataframe, csv, clsIn,
                   clsOut>>

\* Line 157: the sleep after the rows of a page.
EndPage ==
    /\ pc = "rows"
    /\ rowIdx > Len(rows.val)
    /\ net' = Append(net, Sleep)
    /\ pageIdx' = pageIdx + 1
    /\ pc' = "page"
    /\ UNCHANGED <<exc, rows, rowIdx, data, goodRows, served, store, dataframe, csv, clsIn, clsOut>>

\* Lines 158-159 and 246: build_data returns data to the entry point.
Return ==
    /\ pc = "page"
    /\ pageIdx > NumPages
    /\ pc' = "save_json"
    /\ UNCHANGED <<exc, pageIdx, rows, rowIdx, data, net, goodRows, served, store, dataframe,
                   csv, clsIn, clsOut>>

----------------------------------------------------------------------------
(* save_json, build_dataframe, save_csv *)

Range(s) == {s[i] : i \in DOMAIN s}

\* json.dump of a list of dicts: an array of objects, each object its
\* key/value pairs in the order the keys were inserted.
ToJson(records) ==
    [i \in 1..Len(records) |->
        [j \in 1..Len(KeyOrder) |-> [key |-> KeyOrder[j], val |-> records[i][KeyOrder[j]]]]]

\* pd.read_json of an array of objects: one column per key, one row per object.
read_json(doc) ==
    [columns |-> IF Len(doc) = 0 THEN <<>> ELSE [j \in 1..Len(doc[1]) |-> doc[1][j].key],
     rows |-> [i \in 1..Len(doc) |-> [j \in 1..Len(doc[i]) |-> doc[i][j].val]]]

Projection ==
    <<"name", "news_page", "allsides_page", "bias", "agree", "disagree", "agree_ratio",
      "agreeance_text">>

Renamed ==
    [name |-> "Name", news_page |-> "News_Page", allsides_page |-> "Allsides_Page",
     bias |-> "Media_Bias", agree |-> "Agree_Count", disagree |-> "Disagree_Count",
     agree_ratio |-> "Agreeance_Ratio", agreeance_text |-> "Agreeance"]

ColumnAt(df, c) == CHOOSE j \in DOMAIN df.columns : df.columns[j] = c

\* df[[...]]: the listed columns in the listed order.
SelectColumns(df, cols) ==
    [columns |-> cols,
     rows |-> [i \in 1..Len(df.rows) |-> [j \in 1..Len(cols) |-> df.rows[i][ColumnAt(df, cols[j])]]]]

RenameColumns(df) ==
    [columns |-> [j \in 1..Len(df.columns) |-> Renamed[df.columns[j]]], rows |-> df.rows]

\* pd.DataFrame({})
EmptyFrame == [columns |-> <<>>, rows |-> <<>>]

\* Mutant: the except clause returns a frame that has the eight columns.
build_dataframe_KeepsHeader(file) ==
    LET df == IF file.state = "ok" THEN read_json(file.doc) ELSE EmptyFrame
    IN  IF Range(Projection) \subseteq Range(df.columns)
        THEN RenameColumns(SelectColumns(df, Projection))
        ELSE RenameColumns([columns |-> Projection, rows |-> <<>>])

\* Lines 203-212.  Opening or parsing the file may fail, and selecting a
\* column the frame lacks raises KeyError; the except clause returns the
\* empty frame.
build_dataframe(file) ==
    IF file.state # "ok" THEN EmptyFrame
    ELSE LET df == read_json(file.doc)
         IN  IF Range(Projection) \subseteq Range(df.columns)
             THEN RenameColumns(SelectColumns(df, Projection))
             ELSE EmptyFrame

\* Lines 178-183 and 248.  open(..., 'w') fails and leaves the file as it was,
\* or the write fails after the file was truncated, or the document is written.
SaveJson ==
    /\ pc = "save_json"
    /\ \E outcome \in {"written", "open_fails", "write_fails"} :
          store' = CASE outcome = "written" -> [state |-> "ok", doc |-> ToJson(data)]
                     [] outcome = "open_fails" -> store
                     [] outcome = "write_fails" -> [state |-> "corrupt", doc |-> <<>>]
    /\ pc' = "build_dataframe"
    /\ UNCHANGED <<exc, pageIdx, rows, rowIdx, data, net, goodRows, served, dataframe, csv,
                   clsIn, clsOut>>

\* Line 250.
BuildDataframe ==
    /\ pc = "build_dataframe"
    /\ dataframe' = build_dataframe(store)
    /\ pc' = "save_csv"
    /\ UNCHANGED <<exc, pageIdx, rows, rowIdx, data, net, goodRows, served, store, csv,
                   clsIn, clsOut>>

\* Lines 230-234 and 252: to_csv(index = False) writes the header and the rows.
SaveCsv ==
    /\ pc = "save_csv"
    /\ \E written \in BOOLEAN :
          csv' = IF written
                 THEN [state |-> "ok", header |-> dataframe.columns, lines |-> dataframe.rows]
                 ELSE csv
    /\ pc' = "exit"
    /\ UNCHANGED <<exc, pageIdx, rows, rowIdx, data, net, goodRows, served, store, dataframe,
                   clsIn, clsOut>>

----------------------------------------------------------------------------
(* The entry point *)

\* What an earlier run left in JSON/allsides.json.
OldRecord == Extract(MkRow(0, 1, [bad |-> {}, counts |-> <<12, 4>>, inner |-> "ok"])).d

OldStores == {[state |-> "missing", doc |-> <<>>], [state |-> "ok", doc |-> ToJson(<<OldRecord>>)]}

Init ==
    /\ pc = "page"
    /\ exc = "none"
    /\ pageIdx = 1
    /\ rows = [bound |-> FALSE, val |-> <<>>]
    /\ rowIdx = 1
    /\ data = <<>>
    /\ net = <<>>
    /\ goodRows = <<>>
    /\ served = 0
    /\ store \in OldStores
    /\ dataframe = EmptyFrame
    /\ csv = [state |-> "missing", header |-> <<>>, lines |-> <<>>]
    /\ clsIn = <<1, 1>>
    /\ clsOut = "idle"

Next ==
    \/ FetchPage
    \/ ExtractRow
    \/ EndPage
    \/ Return
    \/ SaveJson
    \/ BuildDataframe
    \/ SaveCsv

Spec == Init /\ [][Next]_vars

----------------------------------------------------------------------------
(* get_agreeance_text on its own, over ratios of bounded counts *)

InitClassify ==
    /\ pc = "classify"
    /\ exc = "none"
    /\ pageIdx = 1
    /\ rows = [bound |-> FALSE, val |-> <<>>]
    /\ rowIdx = 1
    /\ data = <<>>
    /\ net = <<>>
    /\ goodRows = <<>>
    /\ served = 0
    /\ store = [state |-> "missing", doc |-> <<>>]
    /\ dataframe = EmptyFrame
    /\ csv = [state |-> "missing", header |-> <<>>, lines |-> <<>>]
    /\ clsIn \in (0..MaxCount) \X (1..MaxCount)
    /\ clsOut = "pending"

\* Lines 143-144 applied to one pair of counts.
Classify ==
    /\ pc = "classify"
    /\ clsOut = "pending"
    /\ clsOut' = get_agreeance_text(TrueDiv(clsIn[1], clsIn[2]))
    /\ UNCHANGED <<pc, exc, pageIdx, rows, rowIdx, data, net, goodRows, served, store,
                   dataframe, csv, clsIn>>

NextClassify == Classify

SpecClassify == InitClassify /\ [][NextClassify]_vars

----------------------------------------------------------------------------
(* Properties *)

Names(records) == [i \in 1..Len(records) |-> records[i].name]

IsPrefix(s, t) == Len(s) <= Len(t) /\ \A i \in 1..Len(s) : s[i] = t[i]

Returned == pc \in {"save_json", "build_dataframe", "save_csv", "exit"}

\* C1: a page whose fetch or parse fails contributes no record: every record
\* held comes from an extractable row of a page whose fetch succeeded, no row
\* yields two records, and the sequence returned has one record per such row.
C1_FailedPageAddsNothing ==
    /\ \A i \in DOMAIN data : data[i].name \in Range(goodRows)
    /\ \A i, j \in DOMAIN data : i # j => data[i].name # data[j].name
    /\ Returned => Len(data) = Len(goodRows)

\* C2: build_data never raises, whatever the pages and the rows do.
C2_NeverRaises == pc # "raised" /\ exc = "none"

\* C3: a row whose extraction fails, at whichever field or at the secondary
\* fetch, adds no record and the loop goes on to the next row.
C3_BadRowSkipped ==
    [][(pc = "rows" /\ rowIdx <= Len(rows.val) /\ ~Extractable(rows.val[rowIdx]))
        => (data' = data /\ pc' = "rows" /\ exc' = "none" /\ rowIdx' = rowIdx + 1)]_vars

\* C4: for agree / disagree with disagree > 0 the classifier returns one of
\* the nine labels, never None, the one the threshold table gives; the
\* ratios 0.33, 0.5, 0.67, 1, 1.5, 2 and 3 get the label of the range they close.
C4_ClassifierTotal ==
    clsOut # "pending" =>
        LET n == clsIn[1]
            m == clsIn[2]
        IN  /\ clsOut \in Labels
            /\ n > 3 * m => clsOut = "absolutely agrees"
            /\ (2 * m < n /\ n <= 3 * m) => clsOut = "strongly agrees"
            /\ (3 * m < 2 * n /\ n <= 2 * m) => clsOut = "agrees"
            /\ (m < n /\ 2 * n <= 3 * m) => clsOut = "somewhat agrees"
            /\ n = m => clsOut = "neutral"
            /\ (67 * m < 100 * n /\ n < m) => clsOut = "somewhat disagrees"
            /\ (m < 2 * n /\ 100 * n <= 67 * m) => clsOut = "disagrees"
            /\ (33 * m < 100 * n /\ 2 * n <= m) => clsOut = "strongly disagrees"
            /\ 100 * n <= 33 * m => clsOut = "absolutely disagrees"
            /\ 100 * n = 33 * m => clsOut = "absolutely disagrees"
            /\ 2 * n = m => clsOut = "strongly disagrees"
            /\ 100 * n = 67 * m => clsOut = "disagrees"
            /\ 2 * n = 3 * m => clsOut = "somewhat agrees"
            /\ n = 2 * m => clsOut = "agrees"
            /\ n = 3 * m => clsOut = "strongly agrees"

C4_Witness == clsOut = "absolutely disagrees" /\ clsIn = <<33, 100>>

\* The rows of the page just processed are Row A (12 to 4) and Row B (3 to 9),
\* both with every field present and a resolving outlet page.
ScenarioAB ==
    /\ pc = "rows"
    /\ Len(rows.val) = 2
    /\ rowIdx = 3
    /\ \A k \in 1..2 : rows.val[k].bad = {} /\ rows.val[k].inner = "ok"
    /\ rows.val[1].agree = 12 /\ rows.val[1].disagree = 4
    /\ rows.val[2].agree = 3 /\ rows.val[2].disagree = 9

LastTwoAre(textB) ==
    /\ Len(data) >= 2
    /\ pageIdx = 1 => Len(data) = 2
    /\ LET a == data[Len(data) - 1]
           b == data[Len(data)]
       IN  /\ a.name = rows.val[1].title
           /\ a.agree_ratio = <<3, 1>>
           /\ a.agreeance_text = "strongly agrees"
           /\ b.name = rows.val[2].title
           /\ b.agree_ratio = <<1, 3>>
           /\ b.agreeance_text = textB

\* C5 as stated: Row A yields ratio 3 and "strongly agrees", then Row B
\* yields ratio 1/3 and "absolutely disagrees".
C5_RowBAbsolutelyDisagrees == ScenarioAB => LastTwoAre("absolutely disagrees")

\* C5 amended: Row A yields ratio 3 and "strongly agrees", then Row B yields
\* ratio 1/3 and "strongly disagrees", 1/3 being above 0.33.
C5_RowBStronglyDisagrees == ScenarioAB => LastTwoAre("strongly disagrees")

C5_Witness == ScenarioAB /\ pageIdx = 1

\* C6: data only grows at its end, and what build_data returns is the
\* extractable rows of the fetched pages, one record each, in page order and
\* row order.
C6_AppendOnlyInOrder ==
    /\ [][IsPrefix(data, data')]_vars
    /\ [](Returned => Names(data) = goodRows)

\* C7: every record held has the eight fields, a disagree count other than
\* 0, agree_ratio = agree / disagree and the label of that ratio; a row whose
\* disagree count is 0 yields no record.
C7_RecordsComplete ==
    /\ \A i \in DOMAIN data :
          LET d == data[i]
          IN  /\ DOMAIN d = Range(KeyOrder)
              /\ d.disagree # 0
              /\ d.agree_ratio[2] > 0
              /\ d.agree_ratio[1] * d.disagree = d.agree * d.agree_ratio[2]
              /\ d.agreeance_text \in Labels
              /\ d.agreeance_text = get_agreeance_text(d.agree_ratio)
    /\ \A k \in DOMAIN rows.val :
          rows.val[k].disagree = 0 => \A i \in DOMAIN data : data[i].name # rows.val[k].title

C7_Witness ==
    /\ pc = "rows"
    /\ rowIdx = 3
    /\ rows.val[1].bad = {} /\ rows.val[1].disagree = 0
    /\ Len(data) > 0
    /\ data[Len(data)].name = rows.val[2].title

Header ==
    <<"Name", "News_Page", "Allsides_Page", "Media_Bias", "Agree_Count", "Disagree_Count",
      "Agreeance_Ratio", "Agreeance">>

NothingToRead == store.state # "ok" \/ Len(store.doc) = 0

\* C8 as stated: over an empty or unreadable store build_dataframe returns
\* no data rows under the eight named columns.
C8_EmptyKeepsHeader ==
    (pc = "save_csv" /\ NothingToRead) => (dataframe.rows = <<>> /\ dataframe.columns = Header)

\* C8 amended: over an empty or unreadable store build_dataframe returns a
\* frame with no rows and no columns; the eight named columns are there, in
\* the fixed order, when the store holds at least one record.
C8_EmptyIsBareFrame ==
    pc = "save_csv" =>
        IF NothingToRead
        THEN dataframe.rows = <<>> /\ dataframe.columns = <<>>
        ELSE dataframe.columns = Header /\ Len(dataframe.rows) = Len(store.doc)

C8_Witness ==
    /\ pc = "save_csv"
    /\ store.state = "ok"
    /\ Len(store.doc) = 0
    /\ dataframe.columns = <<>>

IsPageGet(e) == e.op = "get" /\ e.url[2] = "media-bias-ratings"

IsInnerGet(e) == e.op = "get" /\ e.url[2] = "news-source"

\* C9: every request but the first comes right after a sleep of 10, no two
\* sleeps follow each other, and a row that gets as far as the secondary
\* fetch makes one sleep and then one request to the outlet's page.
C9_SleepBeforeEachRequest ==
    /\ [](\A i \in DOMAIN net :
            /\ (net[i].op = "get" /\ i > 1) => (net[i - 1].op = "sleep" /\ net[i - 1].secs = 10)
            /\ net[i].op = "sleep" => (i > 1 /\ net[i - 1].op = "get"))
    /\ [][(pc = "rows" /\ rowIdx <= Len(rows.val)) =>
            LET row == rows.val[rowIdx]
            IN  IF row.bad = {} /\ row.disagree # 0
                THEN /\ Len(net') = Len(net) + 2
                     /\ net'[Len(net) + 1].op = "sleep"
                     /\ IsInnerGet(net'[Len(net) + 2])
                     /\ net'[Len(net) + 2].url[4] = row.title[2]
                     /\ net'[Len(net) + 2].url[5] = row.title[3]
                ELSE net' = net]_vars

C9_Witness ==
    /\ Returned
    /\ Len(data) > Len(goodRows)
    /\ \E i \in DOMAIN net : IsInnerGet(net[i])
    /\ Cardinality({i \in DOMAIN net : IsPageGet(net[i])}) = NumPages

\* C10: the table handed to save_csv has one row per record that build_data
\* returned in this run, in the same order, whatever the store held before
\* and whether or not save_json wrote it.
C10_TableIsThisRun ==
    pc \in {"save_csv", "exit"} =>
        dataframe.rows = [i \in 1..Len(data) |-> [j \in 1..Len(Projection) |-> data[i][Projection[j]]]]

====
